---------------------------- MODULE Spec2Model ----------------------------
(***************************************************************************)
(* The hypersphere manifold of geomstats (src/geomstats/hypersphere.py):   *)
(* Hypersphere and HypersphereMetric, their operations on batches of       *)
(* points, and the process-wide state they touch (numpy's global random    *)
(* stream, standard output, the logging channel).                          *)
(*                                                                         *)
(* Numbers.  The code computes in IEEE binary64.  Here a number is a       *)
(* decimal floating-point value with a 9-digit mantissa, round-to-nearest  *)
(* (ties to even), with NaN and the two infinities:                        *)
(*     [k |-> "num", m |-> mantissa, e |-> exponent]   value m * 10^e,     *)
(*                              m = 0 or 10^8 <= |m| < 10^9                *)
(*     [k |-> "inf", m |-> 1 or -1, e |-> 0],  [k |-> "nan", ...]          *)
(* Every arithmetic operator returns the exact result rounded to 9 digits, *)
(* as binary64 returns it rounded to 53 bits.  The unit roundoff (5e-10)   *)
(* stays below EPSILON (1e-8) and TOLERANCE (1e-6), as 1.1e-16 does.       *)
(* There is no signed zero and no exponent overflow.                       *)
(***************************************************************************)
EXTENDS Integers, Sequences, FiniteSets, TLC

----------------------------------------------------------------------------
(* Mantissa arithmetic on naturals below 2^31. *)

Base == 10^9
MinMant == 10^8

Pow10(n) == 10^n

RECURSIVE NumDigits(_)
NumDigits(x) == IF x < 10 THEN 1 ELSE 1 + NumDigits(x \div 10)

AbsInt(x) == IF x < 0 THEN -x ELSE x
SgnInt(x) == IF x < 0 THEN -1 ELSE 1

(* The exact product of two naturals below 10^9 as <<hi, lo>>,             *)
(* a * b = hi * 10^9 + lo, by three-digit limbs: the columns c4..c2 of the *)
(* schoolbook product, then the carries from the low digits upwards.       *)
MulCarry2(c4, c3, t2, d1, d0) ==
    << c4 * 1000 + c3 + (t2 \div 1000), (t2 % 1000) * 1000000 + d1 * 1000 + d0 >>
MulCarry1(c4, c3, c2, t1, d0) ==
    MulCarry2(c4, c3, c2 + (t1 \div 1000), t1 % 1000, d0)
MulLimbs(a2, a1, a0, b2, b1, b0) ==
    MulCarry1(a2 * b2, a2 * b1 + a1 * b2, a2 * b0 + a1 * b1 + a0 * b2,
              a1 * b0 + a0 * b1 + ((a0 * b0) \div 1000), (a0 * b0) % 1000)
MulWide(a, b) ==
    MulLimbs(a \div 1000000, (a \div 1000) % 1000, a % 1000,
             b \div 1000000, (b \div 1000) % 1000, b % 1000)

(* On <<q, r>> with r < d: the pair for twice the number, and for r0 more. *)
DblMod(p, d) ==
    IF 2 * p[2] >= d THEN << 2 * p[1] + 1, 2 * p[2] - d >> ELSE << 2 * p[1], 2 * p[2] >>
AddMod(p, r0, d) ==
    IF p[2] + r0 >= d THEN << p[1] + 1, p[2] + r0 - d >> ELSE << p[1], p[2] + r0 >>

(* <<q, r>> with 10 * r0 = q * d + r, for 0 <= r0 < d < 10^9. *)
TimesTenDivMod(r0, d) == DblMod(AddMod(DblMod(DblMod(<< 0, r0 >>, d), d), r0, d), d)

(* <<q, r>> with q0 * 10^n * d + r0 * 10^n = q * d + r: n more quotient digits. *)
RECURSIVE LongDiv(_, _, _, _)
LongStep(q0, s, d, n) == LongDiv(q0 * 10 + s[1], s[2], d, n - 1)
LongDiv(q0, r0, d, n) ==
    IF n = 0 THEN << q0, r0 >> ELSE LongStep(q0, TimesTenDivMod(r0, d), d, n)

(* Wide comparison: hi1 * 10^9 + lo1 <= hi2 * 10^9 + lo2. *)
WideLe(h1, l1, h2, l2) == h1 < h2 \/ (h1 = h2 /\ l1 <= l2)

----------------------------------------------------------------------------
(* Floating-point values. *)

NaN == [k |-> "nan", m |-> 0, e |-> 0]
PosInf == [k |-> "inf", m |-> 1, e |-> 0]
NegInf == [k |-> "inf", m |-> -1, e |-> 0]
Zero == [k |-> "num", m |-> 0, e |-> 0]

IsFinite(x) == x.k = "num"
IsZero(x) == x.k = "num" /\ x.m = 0
Sign(x) == IF x.m < 0 THEN -1 ELSE IF x.m > 0 THEN 1 ELSE 0
Inf(s) == IF s < 0 THEN NegInf ELSE PosInf

(* sg * m1 * 10^e for a mantissa that rounding may have carried to 10^9. *)
Pack(sg, m1, e) ==
    IF m1 = Base THEN [k |-> "num", m |-> sg * MinMant, e |-> e + 1]
    ELSE [k |-> "num", m |-> sg * m1, e |-> e]

(* Round half to even: m0 the kept digits, rem the dropped ones. *)
RoundUp(sg, m0, rem, half, e, sticky) ==
    Pack(sg,
         IF rem > half \/ (rem = half /\ (sticky \/ m0 % 2 = 1)) THEN m0 + 1 ELSE m0,
         e)

RoundHi(sg, hi, lo, e, sticky, d) ==
    RoundUp(sg, hi * Pow10(9 - d) + (lo \div Pow10(d)), lo % Pow10(d),
            5 * Pow10(d - 1), e + d, sticky)
RoundLo(sg, lo, e, d) ==
    [k |-> "num", m |-> sg * lo * Pow10(9 - d), e |-> e - (9 - d)]

(* sg * (hi * 10^9 + lo) * 10^e rounded to nine digits; hi < 10^9,         *)
(* lo < 10^9; sticky says that something nonzero lies below lo.            *)
Round(sg, hi, lo, e, sticky) ==
    IF hi = 0
    THEN IF lo = 0 THEN Zero ELSE RoundLo(sg, lo, e, NumDigits(lo))
    ELSE RoundHi(sg, hi, lo, e, sticky, NumDigits(hi))

(* The number n * 10^e, for an integer |n| < 10^9. *)
Dec(n, e) == Round(SgnInt(n), 0, AbsInt(n), e, FALSE)
Int2F(n) == Dec(n, 0)

FNeg(x) == IF x.k = "nan" THEN NaN ELSE [x EXCEPT !.m = -x.m]
FAbs(x) == IF x.k = "nan" THEN NaN ELSE [x EXCEPT !.m = AbsInt(x.m)]

(* x < y on non-NaN values. *)
OrdLt(x, y) ==
    IF x.k = "inf" THEN x.m < 0 /\ ~(y.k = "inf" /\ y.m < 0)
    ELSE IF y.k = "inf" THEN y.m > 0
    ELSE IF Sign(x) # Sign(y) THEN Sign(x) < Sign(y)
    ELSE IF Sign(x) = 0 THEN FALSE
    ELSE IF x.e # y.e THEN (IF Sign(x) > 0 THEN x.e < y.e ELSE x.e > y.e)
    ELSE x.m < y.m

(* The IEEE comparisons: every comparison with a NaN is false. *)
FEq(x, y) == x.k # "nan" /\ y.k # "nan" /\ x = y
FLt(x, y) == x.k # "nan" /\ y.k # "nan" /\ OrdLt(x, y)
FLe(x, y) == x.k # "nan" /\ y.k # "nan" /\ ~OrdLt(y, x)

(* sx * (h * 10^9 + l) * 10^e, h possibly one digit too long. *)
AddCarry(sx, h, l, e) ==
    IF h >= Base
    THEN Round(sx, h \div 10, (h % 10) * MinMant + (l \div 10), e + 1, (l % 10) # 0)
    ELSE Round(sx, h, l, e, FALSE)

(* sx * (xh * 10^9 + xl) * 10^e plus sy * ay * 10^e. *)
AddNear(sx, sy, xh, xl, ay, e) ==
    IF sx = sy
    THEN AddCarry(sx, xh + ((xl + ay) \div Base), (xl + ay) % Base, e)
    ELSE IF WideLe(0, ay, xh, xl)
    THEN IF xl >= ay THEN Round(sx, xh, xl - ay, e, FALSE)
                     ELSE Round(sx, xh - 1, xl + Base - ay, e, FALSE)
    ELSE Round(-sx, 0, ay - xl, e, FALSE)

(* Sum of two finite nonzero numbers, x the one with the larger exponent. *)
AddAligned(x, y) ==
    IF x.e - y.e >= 10
    THEN \* y is below one unit in the last place of x
         IF /\ x.e - y.e = 10
            /\ AbsInt(x.m) = MinMant
            /\ SgnInt(x.m) # SgnInt(y.m)
            /\ AbsInt(y.m) > 5 * MinMant
         THEN [k |-> "num", m |-> SgnInt(x.m) * (Base - 1), e |-> x.e - 1]
         ELSE x
    ELSE AddNear(SgnInt(x.m), SgnInt(y.m),
                 AbsInt(x.m) \div Pow10(9 - (x.e - y.e)),
                 (AbsInt(x.m) % Pow10(9 - (x.e - y.e))) * Pow10(x.e - y.e),
                 AbsInt(y.m), y.e)

FAdd(x, y) ==
    IF x.k = "nan" \/ y.k = "nan" THEN NaN
    ELSE IF x.k = "inf"
    THEN IF y.k = "inf" /\ y.m # x.m THEN NaN ELSE x
    ELSE IF y.k = "inf" THEN y
    ELSE IF x.m = 0 THEN y
    ELSE IF y.m = 0 THEN x
    ELSE IF x.e >= y.e THEN AddAligned(x, y) ELSE AddAligned(y, x)

FSub(x, y) == FAdd(x, FNeg(y))

RoundWide(sg, p, e) == Round(sg, p[1], p[2], e, FALSE)

FMul(x, y) ==
    IF x.k = "nan" \/ y.k = "nan" THEN NaN
    ELSE IF x.k = "inf" \/ y.k = "inf"
    THEN IF x.m = 0 \/ y.m = 0 THEN NaN ELSE Inf(x.m * y.m)
    ELSE IF x.m = 0 \/ y.m = 0 THEN Zero
    ELSE RoundWide(SgnInt(x.m) * SgnInt(y.m), MulWide(AbsInt(x.m), AbsInt(y.m)), x.e + y.e)

(* The quotient digits qr[1] with remainder qr[2], rounded half to even. *)
DivRound(sg, qr, ay, e) ==
    Round(sg, 0,
          IF 2 * qr[2] > ay \/ (2 * qr[2] = ay /\ qr[1] % 2 = 1) THEN qr[1] + 1 ELSE qr[1],
          e, FALSE)
DivMant(sg, ax, ay, n, e) ==
    DivRound(sg, LongDiv(ax \div ay, ax % ay, ay, n), ay, e - n)

(* numpy's array division: x / 0 is an infinity, 0 / 0 is NaN, no exception. *)
FDiv(x, y) ==
    IF x.k = "nan" \/ y.k = "nan" THEN NaN
    ELSE IF x.k = "inf"
    THEN IF y.k = "inf" THEN NaN ELSE Inf(x.m * (IF y.m < 0 THEN -1 ELSE 1))
    ELSE IF y.k = "inf" THEN Zero
    ELSE IF y.m = 0
    THEN IF x.m = 0 THEN NaN ELSE Inf(x.m)
    ELSE IF x.m = 0 THEN Zero
    ELSE DivMant(SgnInt(x.m) * SgnInt(y.m), AbsInt(x.m), AbsInt(y.m),
                 IF AbsInt(x.m) >= AbsInt(y.m) THEN 8 ELSE 9, x.e - y.e)

WidePairLe(p, h, l) == WideLe(p[1], p[2], h, l)

(* The largest r in lo..hi with r * r <= ah * 10^9 + al (lo satisfies it). *)
RECURSIVE SqrtSearch(_, _, _, _)
SqrtTry(lo, hi, mid, ah, al) ==
    IF WidePairLe(MulWide(mid, mid), ah, al)
    THEN SqrtSearch(mid, hi, ah, al)
    ELSE SqrtSearch(lo, mid - 1, ah, al)
SqrtSearch(lo, hi, ah, al) ==
    IF lo >= hi THEN lo ELSE SqrtTry(lo, hi, lo + (hi - lo + 1) \div 2, ah, al)

(* Round up when (r + 1/2)^2 < a, that is r * r + r < a; sq is r * r. *)
SqrtUp(r, sq, ah, al, e) ==
    Round(1, 0,
          IF ~WideLe(ah, al, sq[1] + ((sq[2] + r) \div Base), (sq[2] + r) % Base)
          THEN r + 1 ELSE r,
          e, FALSE)
SqrtRound(r, ah, al, e) == SqrtUp(r, MulWide(r, r), ah, al, e)
SqrtMant(ah, al, lo, hi, e) == SqrtRound(SqrtSearch(lo, hi, ah, al), ah, al, e)

(* numpy's sqrt: NaN below zero, correctly rounded otherwise. *)
FSqrt(x) ==
    IF x.k = "nan" THEN NaN
    ELSE IF x.k = "inf" THEN (IF x.m > 0 THEN PosInf ELSE NaN)
    ELSE IF x.m < 0 THEN NaN
    ELSE IF x.m = 0 THEN Zero
    ELSE IF x.e % 2 = 1
    THEN SqrtMant(x.m, 0, 316227766, Base - 1, (x.e - 9) \div 2)
    ELSE SqrtMant(x.m \div 10, (x.m % 10) * MinMant, MinMant, 316227766, (x.e - 8) \div 2)

----------------------------------------------------------------------------
(* The elementary functions of the numeric backend (numpy), accurate to a  *)
(* few units in the ninth digit.                                           *)

One == Dec(1, 0)
Two == Dec(2, 0)
Half == Dec(5, -1)

(* gs.pi rounded to nine digits; like binary64's pi it lies just below pi. *)
PI == Dec(314159265, -8)
HalfPi == Dec(157079633, -8)

NearestScaled(s, a, p) == s * ((a \div p) + (IF 2 * (a % p) >= p THEN 1 ELSE 0))

(* The integer nearest to a finite x, |x| < 10^9. *)
NearestInt(x) ==
    IF x.m = 0 \/ x.e < -9 THEN 0
    ELSE IF x.e >= 0 THEN x.m * Pow10(x.e)
    ELSE NearestScaled(SgnInt(x.m), AbsInt(x.m), Pow10(-x.e))

(* x - n * (c1 + c2) for a constant split in a short head c1, so that      *)
(* n * c1 is exact, and a tail c2 (Cody and Waite's argument reduction).   *)
Reduce(x, n, c1, c2) ==
    FSub(FSub(x, FMul(Int2F(n), c1)), FMul(Int2F(n), c2))

(* 1 / n! as a number; n! = f * 10^z. *)
InvFact(f, z) == FDiv(One, Dec(f, z))

(* cs[i] + z * (cs[i+1] + z * (... + z * acc)), from the inside outwards. *)
RECURSIVE Horner(_, _, _, _)
Horner(cs, z, i, acc) ==
    IF i = 0 THEN acc ELSE Horner(cs, z, i - 1, FAdd(FMul(z, acc), cs[i]))

(* The Taylor coefficients of sin(y)/y - 1 and of cos(y) - 1 in z = y^2,   *)
(* from z on.                                                              *)
SinCoeffs ==
    << FNeg(InvFact(6, 0)), InvFact(120, 0), FNeg(InvFact(5040, 0)),
       InvFact(362880, 0), FNeg(InvFact(39916800, 0)), InvFact(62270208, 2) >>
CosCoeffs ==
    << FNeg(Half), InvFact(24, 0), FNeg(InvFact(720, 0)), InvFact(40320, 0),
       FNeg(InvFact(3628800, 0)), InvFact(479001600, 0), FNeg(InvFact(871782912, 2)) >>

(* sin and cos on [-pi/4, pi/4]. *)
SinPoly(y, z) == FAdd(y, FMul(y, FMul(z, Horner(SinCoeffs, z, 5, SinCoeffs[6]))))
SinKernel(y) == SinPoly(y, FMul(y, y))
CosPoly(z) == FAdd(One, FMul(z, Horner(CosCoeffs, z, 6, CosCoeffs[7])))
CosKernel(y) == CosPoly(FMul(y, y))

(* The quadrant n and the reduced argument y = x - n * pi/2. *)
Quadrant(x) == NearestInt(FDiv(x, HalfPi))
ReducedArg(x) == Reduce(x, Quadrant(x), Dec(1570796, -6), Dec(326794897, -15))

(* sin(y + q * pi/2) for y in [-pi/4, pi/4]. *)
SinQuadrant(q, y) ==
    CASE q = 0 -> SinKernel(y)
      [] q = 1 -> CosKernel(y)
      [] q = 2 -> FNeg(SinKernel(y))
      [] OTHER -> FNeg(CosKernel(y))

Sin(x) == IF x.k # "num" THEN NaN ELSE SinQuadrant(Quadrant(x) % 4, ReducedArg(x))
Cos(x) == IF x.k # "num" THEN NaN ELSE SinQuadrant((Quadrant(x) + 1) % 4, ReducedArg(x))
Tan(x) == FDiv(Sin(x), Cos(x))

(* arcsin on [-0.71, 0.71] by Newton's iteration on sin, from x = s. *)
RECURSIVE ArcsinIter(_, _, _)
ArcsinIter(s, x, n) ==
    IF n = 0 \/ x.k # "num" THEN x
    ELSE ArcsinIter(s, FAdd(x, FDiv(FSub(s, Sin(x)), Cos(x))), n - 1)

Arcsin(s) == ArcsinIter(s, s, 4)

(* arccos on [-1, 1]; NaN outside.  arccos(1) = 0 and arccos(-1) = PI. *)
Arccos(c) ==
    IF c.k # "num" THEN NaN
    ELSE IF FLt(One, FAbs(c)) THEN NaN
    ELSE IF FLe(Half, c)
    THEN FMul(Two, Arcsin(FSqrt(FMul(Half, FSub(One, c)))))
    ELSE IF FLe(c, FNeg(Half))
    THEN FSub(PI, FMul(Two, Arcsin(FSqrt(FMul(Half, FAdd(One, c))))))
    ELSE FSub(HalfPi, Arcsin(c))

(* exp(r) for |r| <= 1.16: 1 + r/1 * (1 + r/2 * (1 + ... r/16)), from the *)
(* innermost factor outwards; acc is 1 + r/(n+1) * (...).                  *)
RECURSIVE ExpSeries(_, _, _)
ExpSeries(r, n, acc) ==
    IF n = 0 \/ acc.k # "num" THEN acc
    ELSE ExpSeries(r, n - 1, FAdd(One, FMul(FDiv(r, Int2F(n)), acc)))

(* v * 10^n *)
Scale10(v, n) == [v EXCEPT !.e = v.e + n]

(* exp(x) = 10^n * exp(x - n * ln 10) *)
ExpReduced(x, n) ==
    Scale10(ExpSeries(Reduce(x, n, Dec(2302585, -6), Dec(929940457, -16)), 16, One), n)

Exp(x) ==
    IF x.k = "nan" THEN NaN
    ELSE IF x.k = "inf" THEN (IF x.m > 0 THEN PosInf ELSE Zero)
    ELSE ExpReduced(x, NearestInt(FDiv(x, Dec(230258509, -8))))

(* 1 + z/3 + z^2/5 + ... up to z^17/35, from the last term backwards;     *)
(* acc is 1/(n+2) + z/(n+4) + ...                                          *)
RECURSIVE AtanhSeries(_, _, _)
AtanhSeries(z, n, acc) ==
    IF n < 1 \/ acc.k # "num" THEN acc
    ELSE AtanhSeries(z, n - 2, FAdd(FDiv(One, Int2F(n)), FMul(z, acc)))

(* n * ln 10 + 2 * atanh(t), ln 10 split as in Reduce. *)
LnSum(n, t) ==
    FAdd(FAdd(FMul(Int2F(n), Dec(2302585, -6)),
              FMul(Two, FMul(t, AtanhSeries(FMul(t, t), 33, FDiv(One, Int2F(35)))))),
         FMul(Int2F(n), Dec(929940457, -16)))

(* ln(f * 10^n) for f in [0.316, 3.16): ln f = 2 * atanh((f - 1)/(f + 1)). *)
LnParts(f, n) == LnSum(n, FDiv(FSub(f, One), FAdd(f, One)))

(* Natural logarithm: log(0) = -inf, NaN below zero. *)
Ln(x) ==
    IF x.k = "nan" THEN NaN
    ELSE IF x.k = "inf" THEN (IF x.m > 0 THEN PosInf ELSE NaN)
    ELSE IF x.m < 0 THEN NaN
    ELSE IF x.m = 0 THEN NegInf
    ELSE IF x.m < 316227766
    THEN LnParts([x EXCEPT !.e = -8], x.e + 8)
    ELSE LnParts([x EXCEPT !.e = -9], x.e + 9)

----------------------------------------------------------------------------
(* Arrays.  An ndarray of one or two axes is                               *)
(*     [nd |-> 1 or 2, cols |-> last-axis length, rows |-> <<row, ...>>]   *)
(* a one-axis array holding its single row.  A column of shape (n, 1) is   *)
(* an array with cols = 1.  A batch of scalars, one per row, is a sequence.*)

Vector(row) == [nd |-> 1, cols |-> Len(row), rows |-> << row >>]
Matrix(rows, cols) == [nd |-> 2, cols |-> cols, rows |-> rows]
NRows(a) == Len(a.rows)

(* gs.to_ndarray(x, to_ndim=2): a single point becomes a batch of one. *)
to_ndarray(a) == [a EXCEPT !.nd = 2]

(* The sequence <<F(1), ..., F(n)>>. *)
RECURSIVE Tabulate(_, _)
Tabulate(F(_), n) == IF n = 0 THEN << >> ELSE Append(Tabulate(F, n - 1), F(n))

(* Elementwise operations on sequences of equal length. *)
Map(F(_), xs) == Tabulate(LAMBDA i : F(xs[i]), Len(xs))
Map2(F(_, _), xs, ys) == Tabulate(LAMBDA i : F(xs[i], ys[i]), Len(xs))

(* gs.to_ndarray(xs, to_ndim=2, axis=1): the scalars as a column. *)
Column(xs) == Matrix(Map(LAMBDA x : << x >>, xs), 1)

RECURSIVE SumFrom(_, _, _)
SumFrom(xs, i, acc) ==
    IF i > Len(xs) THEN acc ELSE SumFrom(xs, i + 1, FAdd(acc, xs[i]))

(* Left-to-right floating-point sum of a sequence. *)
Sum(xs) == IF Len(xs) = 0 THEN Zero ELSE SumFrom(xs, 2, xs[1])

Dot(u, v) == Sum(Map2(FMul, u, v))

(* The ambient Euclidean metric (EuclideanMetric): batched over the        *)
(* leading axis, each returning one value per row.                         *)
inner_product(a, b) == Map2(Dot, a.rows, b.rows)
squared_norm(v) == inner_product(v, v)
norm(v) == Map(FSqrt, squared_norm(v))

(* gs.einsum('ni,nj->nj', coef, x) for a column coef: row n of x scaled by *)
(* coef[n].                                                                *)
einsum(coef, x) ==
    Tabulate(LAMBDA i : Map(LAMBDA v : FMul(coef[i], v), x.rows[i]), NRows(x))

(* x ** k for k = 2, 4, 6, 8. *)
RECURSIVE Pow(_, _)
Pow(x, k) == IF k = 1 THEN x ELSE FMul(Pow(x, k - 1), x)

FMax(x, y) == IF x.k = "nan" \/ y.k = "nan" THEN NaN ELSE IF OrdLt(x, y) THEN y ELSE x
FMin(x, y) == IF x.k = "nan" \/ y.k = "nan" THEN NaN ELSE IF OrdLt(y, x) THEN y ELSE x
clip(x, lo, hi) == FMin(FMax(x, lo), hi)

(* numpy.isclose(a, b) with its default rtol = 1e-5 and atol = 1e-8. *)
isclose(a, b) ==
    IF a.k = "nan" \/ b.k = "nan" THEN FALSE
    ELSE IF a.k = "inf" \/ b.k = "inf" THEN a = b
    ELSE FLe(FAbs(FSub(a, b)), FAdd(Dec(1, -8), FMul(Dec(1, -5), FAbs(b))))

----------------------------------------------------------------------------
(* Module constants of hypersphere.py. *)

TOLERANCE == Dec(1, -6)
EPSILON == Dec(1, -8)

INV_SIN_TAYLOR_COEFFS ==
    << Zero, FDiv(One, Dec(6, 0)),
       Zero, FDiv(Dec(7, 0), Dec(360, 0)),
       Zero, FDiv(Dec(31, 0), Dec(15120, 0)),
       Zero, FDiv(Dec(127, 0), Dec(604800, 0)) >>
INV_TAN_TAYLOR_COEFFS ==
    << Zero, FDiv(FNeg(One), Dec(3, 0)),
       Zero, FDiv(FNeg(One), Dec(45, 0)),
       Zero, FDiv(FNeg(Two), Dec(945, 0)),
       Zero, FDiv(FNeg(One), Dec(4725, 0)) >>

----------------------------------------------------------------------------
(* class Hypersphere.  dim is self.dimension.                              *)

(* `a is b` on two ints: CPython shares the objects of -5..256, so there   *)
(* identity is equality; beyond them equal ints may or may not be shared.  *)
IsSame(a, b) ==
    IF a # b THEN {FALSE}
    ELSE IF a \in -5..256 THEN {TRUE}
    ELSE {TRUE, FALSE}

PyFalse == [kind |-> "bool", v |-> FALSE]
BoolArray(bs) == [kind |-> "boolarray", v |-> bs]

(* gs.all(x) of what belongs returns. *)
all(b) == IF b.kind = "bool" THEN b.v ELSE \A i \in 1..Len(b.v) : b.v[i]

(* The comparison made strict: gs.less in place of gs.less_equal. *)
less_abs_minus_1(sq_norm, tolerance) ==
    BoolArray(Map(LAMBDA s : FLt(FAbs(FSub(s, One)), tolerance), sq_norm))

(* gs.less_equal(gs.abs(sq_norm - 1), tolerance) *)
less_equal_abs_minus_1(sq_norm, tolerance) ==
    BoolArray(Map(LAMBDA s : FLe(FAbs(FSub(s, One)), tolerance), sq_norm))

(* Hypersphere.belongs: the value returned. *)
belongs(dim, point, tolerance) ==
    IF point.cols # dim + 1
    THEN PyFalse
    ELSE less_equal_abs_minus_1(squared_norm(point), tolerance)

(* The warning logged without the test on the length. *)
belongs_warnings_any_length(dim, point) == IF point.cols # dim + 1 THEN {1} ELSE {0}

(* Hypersphere.belongs: the warnings it may log (0 or 1). *)
belongs_warnings(dim, point) ==
    IF point.cols # dim + 1
    THEN {IF w THEN 1 ELSE 0 : w \in IsSame(point.cols, dim)}
    ELSE {0}

(* point / norm, the norms broadcast along the rows *)
divide(point, nrm) ==
    Matrix(Tabulate(LAMBDA i : Map(LAMBDA x : FDiv(x, nrm[i]), point.rows[i]),
                    NRows(point)),
           point.cols)

projection(point) == divide(to_ndarray(point), norm(to_ndarray(point)))

(* The assertion with gs.any in place of gs.all. *)
regularize_ok_any(dim, point) ==
    IF belongs(dim, point, TOLERANCE).kind = "bool"
    THEN belongs(dim, point, TOLERANCE).v
    ELSE \E i \in 1..NRows(point) : belongs(dim, point, TOLERANCE).v[i]

(* Hypersphere.regularize: the assertion holds, or AssertionError. *)
regularize_ok(dim, point) == all(belongs(dim, point, TOLERANCE))
regularize(dim, point) == projection(point)

(* a - rows and rows + rows, elementwise *)
subtract(a, b) == Map2(LAMBDA r, s : Map2(FSub, r, s), a, b)
add(a, b) == Map2(LAMBDA r, s : Map2(FAdd, r, s), a, b)

(* The coefficient divided by the norm in place of the squared norm. *)
projection_to_tangent_space_by_norm(vector, base_point) ==
    Matrix(subtract(vector.rows,
                    einsum(Map2(FDiv, inner_product(base_point, vector), norm(base_point)),
                           base_point)),
           vector.cols)

projection_to_tangent_space(vector, base_point) ==
    Matrix(subtract(vector.rows,
                    einsum(Map2(FDiv, inner_product(base_point, vector),
                                      squared_norm(base_point)),
                           base_point)),
           vector.cols)

(* gs.sqrt(1. - gs.linalg.norm(point_intrinsic, axis=-1) ** 2) *)
coord_0(point_intrinsic) ==
    Map(LAMBDA r : FSqrt(FSub(One, Pow(FSqrt(Dot(r, r)), 2))), point_intrinsic.rows)

(* gs.concatenate([coord_0, point_intrinsic], axis=-1) *)
concatenate(column, a) == Matrix(Map2(LAMBDA c, r : << c >> \o r, column, a.rows), a.cols + 1)

intrinsic_to_extrinsic_coords(point_intrinsic) ==
    concatenate(coord_0(point_intrinsic), to_ndarray(point_intrinsic))

extrinsic_to_intrinsic_coords(point_extrinsic) ==
    Matrix(Map(Tail, point_extrinsic.rows), point_extrinsic.cols - 1)

(* Hypersphere.random_uniform on the values drawn from gs.random.rand,     *)
(* n_samples * dim of them in row-major order.                             *)
random_uniform(dim, n_samples, draws) ==
    intrinsic_to_extrinsic_coords(
        Matrix(Tabulate(LAMBDA i :
                   Tabulate(LAMBDA j : FSub(draws[(i - 1) * dim + j], Half), dim),
                   n_samples),
               dim))

(* The test on the dimension as a lower bound. *)
vmf_implemented_from_2(dim) == dim >= 2

(* if self.dimension != 2: raise NotImplementedError *)
vmf_implemented(dim) == dim = 2

(* 1. + 1./kappa*gs.log(scalar + (1.-scalar)*gs.exp(-2.*kappa)) *)
coord_z(kappa, scalar) ==
    FAdd(One, FMul(FDiv(One, kappa),
                   Ln(FAdd(scalar, FMul(FSub(One, scalar), Exp(FMul(FNeg(Two), kappa)))))))

(* gs.sqrt(1. - coord_z**2) * unit_vector, then coord_z *)
coord_xy_z(radius, angle, z) == << FMul(radius, Cos(angle)), FMul(radius, Sin(angle)), z >>
vmf_point(angle, z) == coord_xy_z(FSqrt(FSub(One, Pow(z, 2))), angle, z)

(* Hypersphere.random_von_mises_fisher past its dimension check, on the    *)
(* values drawn: n_samples for the angle, then n_samples for the scalar.   *)
random_von_mises_fisher(kappa, n_samples, draws) ==
    Matrix(Tabulate(LAMBDA i : vmf_point(FMul(FMul(Two, PI), draws[i]),
                                         coord_z(kappa, draws[n_samples + i])),
                    n_samples),
           3)

----------------------------------------------------------------------------
(* class HypersphereMetric. *)

metric_squared_norm(vector) == Column(squared_norm(vector))

(* cos(n) * base_point + sin(n) / n * tangent_vec, n the norms plus EPSILON *)
exp_of_norm(norm_tangent_vec, tangent_vec, base_point) ==
    Matrix(add(einsum(Map(Cos, norm_tangent_vec), base_point),
               einsum(Map(LAMBDA n : FDiv(Sin(n), n), norm_tangent_vec), tangent_vec)),
           tangent_vec.cols)

exp(tangent_vec, base_point) ==
    exp_of_norm(Map(LAMBDA n : FAdd(n, EPSILON), norm(tangent_vec)),
                to_ndarray(tangent_vec), to_ndarray(base_point))

(* The cosine normalised by norm_a twice. *)
arccos_clip_norm_a(inner_prod, norm_a, norm_b) ==
    Tabulate(LAMBDA i : Arccos(clip(FDiv(inner_prod[i], FMul(norm_a[i], norm_a[i])),
                                    FNeg(One), One)),
             Len(inner_prod))

(* gs.arccos(gs.clip(inner_prod / (norm_a * norm_b), -1, 1)), elementwise *)
arccos_clip(inner_prod, norm_a, norm_b) ==
    Tabulate(LAMBDA i : Arccos(clip(FDiv(inner_prod[i], FMul(norm_a[i], norm_b[i])),
                                    FNeg(One), One)),
             Len(inner_prod))

(* The angle of log and of dist, one per row. *)
angle_of(a, b) == arccos_clip(inner_product(a, b), norm(a), norm(b))

(* The two polynomials of log, evaluated on every element. *)
inv_sin_taylor(angle) ==
    FAdd(FAdd(FAdd(FAdd(One,
        FMul(INV_SIN_TAYLOR_COEFFS[2], Pow(angle, 2))),
        FMul(INV_SIN_TAYLOR_COEFFS[4], Pow(angle, 4))),
        FMul(INV_SIN_TAYLOR_COEFFS[6], Pow(angle, 6))),
        FMul(INV_SIN_TAYLOR_COEFFS[8], Pow(angle, 8)))
inv_tan_taylor(angle) ==
    FAdd(FAdd(FAdd(FAdd(One,
        FMul(INV_TAN_TAYLOR_COEFFS[2], Pow(angle, 2))),
        FMul(INV_TAN_TAYLOR_COEFFS[4], Pow(angle, 4))),
        FMul(INV_TAN_TAYLOR_COEFFS[6], Pow(angle, 6))),
        FMul(INV_TAN_TAYLOR_COEFFS[8], Pow(angle, 8)))

(* The masks of log on one element, and their casts to float. *)
mask_0(angle) == isclose(angle, Zero)
mask_else(angle) == (mask_0(angle) = FALSE)
mask_float(b) == IF b THEN One ELSE Zero

(* The coefficients of log on one element: zero, plus the polynomial under *)
(* mask_0, plus the closed form under mask_else, each computed on every    *)
(* element and multiplied by its mask.                                     *)
coef_1(angle) ==
    FAdd(FAdd(Zero, FMul(mask_float(mask_0(angle)), inv_sin_taylor(angle))),
         FDiv(FMul(mask_float(mask_else(angle)), angle), Sin(angle)))
coef_2(angle) ==
    FAdd(FAdd(Zero, FMul(mask_float(mask_0(angle)), inv_tan_taylor(angle))),
         FDiv(FMul(mask_float(mask_else(angle)), angle), Tan(angle)))

log_of_angle(angle, point, base_point) ==
    Matrix(subtract(einsum(Map(coef_1, angle), point),
                    einsum(Map(coef_2, angle), base_point)),
           point.cols)

log(point, base_point) ==
    log_of_angle(angle_of(to_ndarray(base_point), to_ndarray(point)),
                 to_ndarray(point), to_ndarray(base_point))

dist(point_a, point_b) == Column(angle_of(point_a, point_b))

----------------------------------------------------------------------------
(* Bounds of the model. *)

MaxDim == 5
MaxSamples == 2
MaxDraws == 5

----------------------------------------------------------------------------
(* The inputs the operations are called with. *)

Pad(p, len) == [j \in 1..len |-> IF j <= Len(p) THEN p[j] ELSE Zero]

(* Points given by their leading coordinates; the others are zero. *)
E1 == << One >>
P345 == << Dec(6, -1), Dec(8, -1) >>
Scaled345 == << Dec(3, 0), Dec(4, 0) >>
OffQuarter == << Half, One >>
OnTolerance == << One, Dec(1, -3) >>
PastTolerance == << One, Dec(11, -4) >>
Origin == << >>
NotANumber == << NaN >>
NearE1 == << One, Dec(1, -8) >>
Tilted == << Dec(6, -1), Zero, Dec(8, -1) >>

Deg(k) == FMul(Dec(k, 0), FDiv(PI, Dec(180, 0)))
OnCircle(k) == << Cos(Deg(k)), Sin(Deg(k)) >>

Prefixes(ps, len) == {Pad(p, len) : p \in {q \in ps : Len(q) <= len}}

AnyRows(len) ==
    Prefixes({E1, P345, Scaled345, OffQuarter, OnTolerance, PastTolerance,
              Origin, NotANumber, NearE1}, len)
UnitRows(len) ==
    Prefixes({E1, NearE1, OnTolerance, OnCircle(30), OnCircle(90), OnCircle(150),
              Tilted}, len)
BaseRows(len) ==
    Prefixes({E1, P345, Scaled345, << One, One >>, << Zero, Two >>, Origin}, len)
FreeRows(len) ==
    Prefixes({E1, P345, << One, Two >>, << FNeg(One), Half >>, Origin,
              << Dec(1, 0), Dec(2, 0), Dec(3, 0) >>}, len)
IntrinsicRows(len) ==
    Prefixes({Origin, << Half >>, << FNeg(Half) >>, P345, Scaled345}, len)

(* One point, or a batch of two. *)
Arrays(rows, len) ==
    {Vector(r) : r \in rows} \cup {Matrix(<< r >>, len) : r \in rows}
Pairs(rows, len) == {Matrix(<< r1, r2 >>, len) : r1 \in rows, r2 \in rows}

BelongsInputs(dim) ==
    UNION {Arrays(AnyRows(len), len) \cup Pairs(Prefixes({E1, P345, PastTolerance}, len), len)
           : len \in {l \in {dim - 1, dim, dim + 1, dim + 2} : l >= 1}}
Tolerances == {TOLERANCE, Dec(25, -2), Zero}

RegularizeInputs(dim) ==
    UNION {Arrays(AnyRows(len), len) \cup Pairs(Prefixes({E1, P345, PastTolerance}, len), len)
           : len \in {dim, dim + 1}}

ProjectionInputs(dim) ==
    Arrays(AnyRows(dim + 1), dim + 1)
        \cup Pairs(Prefixes({Scaled345, OffQuarter}, dim + 1), dim + 1)

(* <<vector, base_point>> *)
TangentInputs(dim) ==
    {<< Vector(v), Vector(b) >> : v \in FreeRows(dim + 1), b \in BaseRows(dim + 1)}
        \cup {<< Matrix(<< v, w >>, dim + 1), Matrix(<< b, c >>, dim + 1) >> :
                 v \in Prefixes({<< One, Two >>}, dim + 1),
                 w \in Prefixes({<< FNeg(One), Half >>}, dim + 1),
                 b \in Prefixes({Scaled345, << One, One >>}, dim + 1),
                 c \in Prefixes({P345, << Zero, Two >>}, dim + 1)}

(* <<point_a, point_b>>, both on the sphere *)
PointPairs(dim) ==
    {<< Vector(p), Vector(q) >> :
        p \in UnitRows(dim + 1), q \in Prefixes({E1, P345}, dim + 1)}
        \cup {<< Matrix(<< p, q >>, dim + 1), Matrix(<< q, p >>, dim + 1) >> :
                 p \in Prefixes({OnCircle(30)}, dim + 1),
                 q \in Prefixes({OnTolerance}, dim + 1)}

(* <<tangent_vec, base_point>>: a vector of length t orthogonal to the base point. *)
Lengths == {Zero, Half, HalfPi, Dec(3, 0)}
ExpInputs(dim) ==
    {<< Vector(Pad(<< Zero, t >>, dim + 1)), Vector(Pad(E1, dim + 1)) >> : t \in Lengths}
        \cup {<< Vector(Pad(<< FMul(Dec(-8, -1), t), FMul(Dec(6, -1), t) >>, dim + 1)),
                 Vector(Pad(P345, dim + 1)) >> : t \in Lengths}
        \cup {<< Matrix(<< Pad(<< Zero, t >>, dim + 1), Pad(<< Zero, Half >>, dim + 1) >>, dim + 1),
                 Matrix(<< Pad(E1, dim + 1), Pad(E1, dim + 1) >>, dim + 1) >> : t \in Lengths}

(* The values gs.random.rand may return, in [0, 1). *)
RandValues == {Zero, Dec(75, -2)}
Kappas == {Zero, One, Dec(10, 0)}

----------------------------------------------------------------------------
(* State. *)

VARIABLES
    dimension,  \* self.dimension of the Hypersphere and of its metric
    pc,         \* "idle", or "returned" / "raised" right after a call
    op,         \* the operation last called
    args,       \* its arguments
    result,     \* the value it returned
    exc,        \* the exception it raised, or "none"
    rng,        \* how many values the call drew from numpy's global random stream
    stdout,     \* how many lines the call printed
    warnings    \* how many warnings the call logged

vars == << dimension, pc, op, args, result, exc, rng, stdout, warnings >>

None == [kind |-> "none"]

(* Hypersphere.__init__: dimension is a positive int. *)
Init ==
    /\ dimension \in 1..MaxDim
    /\ pc = "idle"
    /\ op = "none"
    /\ args = None
    /\ result = None
    /\ exc = "none"
    /\ rng = 0
    /\ stdout = 0
    /\ warnings = 0

CanCall == pc = "idle"

Returns(name, a, r) ==
    /\ pc' = "returned"
    /\ op' = name
    /\ args' = a
    /\ result' = r
    /\ exc' = "none"
    /\ UNCHANGED dimension

Raises(name, a, e) ==
    /\ pc' = "raised"
    /\ op' = name
    /\ args' = a
    /\ result' = None
    /\ exc' = e
    /\ UNCHANGED dimension

CallBelongs ==
    /\ CanCall
    /\ \E point \in BelongsInputs(dimension), tolerance \in Tolerances :
          /\ Returns("belongs", [point |-> point, tolerance |-> tolerance],
                     belongs(dimension, point, tolerance))
          /\ \E w \in belongs_warnings(dimension, point) : warnings' = w
    /\ UNCHANGED << rng, stdout >>

CallRegularize ==
    /\ CanCall
    /\ \E point \in RegularizeInputs(dimension) :
          /\ IF regularize_ok(dimension, point)
             THEN Returns("regularize", [point |-> point], regularize(dimension, point))
             ELSE Raises("regularize", [point |-> point], "AssertionError")
          /\ \E w \in belongs_warnings(dimension, point) : warnings' = w
    /\ UNCHANGED << rng, stdout >>

CallProjection ==
    /\ CanCall
    /\ \E point \in ProjectionInputs(dimension) :
          Returns("projection", [point |-> point], projection(point))
    /\ UNCHANGED << rng, stdout, warnings >>

CallProjectionToTangentSpace ==
    /\ CanCall
    /\ \E vb \in TangentInputs(dimension) :
          Returns("projection_to_tangent_space",
                  [vector |-> vb[1], base_point |-> vb[2]],
                  projection_to_tangent_space(vb[1], vb[2]))
    /\ UNCHANGED << rng, stdout, warnings >>

CallIntrinsicToExtrinsicCoords ==
    /\ CanCall
    /\ \E point \in Arrays(IntrinsicRows(dimension), dimension) :
          Returns("intrinsic_to_extrinsic_coords", [point_intrinsic |-> point],
                  intrinsic_to_extrinsic_coords(point))
    /\ UNCHANGED << rng, stdout, warnings >>

CallExtrinsicToIntrinsicCoords ==
    /\ CanCall
    /\ \E point \in Arrays(UnitRows(dimension + 1), dimension + 1) :
          Returns("extrinsic_to_intrinsic_coords", [point_extrinsic |-> point],
                  extrinsic_to_intrinsic_coords(point))
    /\ UNCHANGED << rng, stdout, warnings >>

CallRandomUniform ==
    /\ CanCall
    /\ \E n_samples \in 0..MaxSamples :
          /\ n_samples * dimension <= MaxDraws
          /\ \E draws \in [1..(n_samples * dimension) -> RandValues] :
                Returns("random_uniform", [n_samples |-> n_samples, draws |-> draws],
                        random_uniform(dimension, n_samples, draws))
          /\ rng' = n_samples * dimension
    /\ UNCHANGED << stdout, warnings >>

CallRandomVonMisesFisher ==
    /\ CanCall
    /\ \E kappa \in Kappas, n_samples \in 0..MaxSamples :
          IF ~vmf_implemented(dimension)
          THEN /\ Raises("random_von_mises_fisher",
                         [kappa |-> kappa, n_samples |-> n_samples, draws |-> << >>],
                         "NotImplementedError")
               /\ rng' = 0
          ELSE /\ 2 * n_samples <= MaxDraws
               /\ \E draws \in [1..(2 * n_samples) -> RandValues] :
                     IF IsZero(kappa)
                     THEN \* 1./kappa on a Python number
                          Raises("random_von_mises_fisher",
                                 [kappa |-> kappa, n_samples |-> n_samples, draws |-> draws],
                                 "ZeroDivisionError")
                     ELSE Returns("random_von_mises_fisher",
                                  [kappa |-> kappa, n_samples |-> n_samples, draws |-> draws],
                                  random_von_mises_fisher(kappa, n_samples, draws))
               /\ rng' = 2 * n_samples
    /\ UNCHANGED << stdout, warnings >>

CallSquaredNorm ==
    /\ CanCall
    /\ \E vector \in Arrays(FreeRows(dimension + 1), dimension + 1) :
          Returns("squared_norm", [vector |-> vector], metric_squared_norm(vector))
    /\ UNCHANGED << rng, stdout, warnings >>

CallExp ==
    /\ CanCall
    /\ \E tb \in ExpInputs(dimension) :
          Returns("exp", [tangent_vec |-> tb[1], base_point |-> tb[2]], exp(tb[1], tb[2]))
    /\ UNCHANGED << rng, stdout, warnings >>

CallLog ==
    /\ CanCall
    /\ \E pq \in PointPairs(dimension) :
          Returns("log", [point |-> pq[1], base_point |-> pq[2]], log(pq[1], pq[2]))
    \* print('BEFORE coef_1 shape:', gs.shape(coef_1))
    /\ stdout' = 1
    /\ UNCHANGED << rng, warnings >>

CallDist ==
    /\ CanCall
    /\ \E ab \in PointPairs(dimension) :
          Returns("dist", [point_a |-> ab[1], point_b |-> ab[2]], dist(ab[1], ab[2]))
    /\ UNCHANGED << rng, stdout, warnings >>

(* The caller takes the result (or the exception) and goes on. *)
Return ==
    /\ pc \in {"returned", "raised"}
    /\ pc' = "idle"
    /\ op' = "none"
    /\ args' = None
    /\ result' = None
    /\ exc' = "none"
    /\ rng' = 0
    /\ stdout' = 0
    /\ warnings' = 0
    /\ UNCHANGED dimension

Next ==
    \/ CallBelongs
    \/ CallRegularize
    \/ CallProjection
    \/ CallProjectionToTangentSpace
    \/ CallIntrinsicToExtrinsicCoords
    \/ CallExtrinsicToIntrinsicCoords
    \/ CallRandomUniform
    \/ CallRandomVonMisesFisher
    \/ CallSquaredNorm
    \/ CallExp
    \/ CallLog
    \/ CallDist
    \/ Return

Spec == Init /\ [][Next]_vars

----------------------------------------------------------------------------
(* The claims. *)

Called(name) == pc = "returned" /\ op = name
Invoked(name) == pc \in {"returned", "raised"} /\ op = name

(* |sq_norm - 1| <= tolerance for one row, from the coordinates. *)
OnSphere(row, tolerance) == FLe(FAbs(FSub(Dot(row, row), One)), tolerance)

(* Every row of the array has dim + 1 coordinates and lies on the sphere. *)
AllOnSphere(dim, a) ==
    a.cols = dim + 1 /\ \A i \in 1..NRows(a) : OnSphere(a.rows[i], TOLERANCE)

(* The row has a norm that projection can divide by. *)
Projectable(row) ==
    /\ \A j \in 1..Len(row) : IsFinite(row[j])
    /\ ~IsZero(Dot(row, row))

(* C1: every point random_uniform returns, and every point projection       *)
(* returns for an input with a nonzero finite norm, belongs to the sphere:  *)
(* n + 1 coordinates and a squared norm within TOLERANCE of 1, row by row.  *)
C1_SampledAndProjectedPointsBelong ==
    /\ Called("random_uniform") => AllOnSphere(dimension, result)
    /\ (Called("projection") /\ \A i \in 1..NRows(args.point) : Projectable(args.point.rows[i]))
          => AllOnSphere(dimension, result)

(* Two rows that are neither equal nor opposite: their angle is in (0, pi). *)
Negated(row) == Map(FNeg, row)
StrictlyBetween(p, q) == p # q /\ p # Negated(q)

(* |a - b| <= tol on every coordinate of two rows. *)
RowsClose(a, b, tol) == \A j \in 1..Len(a) : FLe(FAbs(FSub(a[j], b[j])), tol)

(* C2: for points p and q on the sphere at an angle strictly between 0 and  *)
(* pi, exp(log(p, q), q) is p within 1e-6 on every coordinate.              *)
C2_ExpInvertsLog ==
    Called("log") =>
        \A i \in 1..NRows(args.point) :
            (/\ OnSphere(args.point.rows[i], TOLERANCE)
             /\ OnSphere(args.base_point.rows[i], TOLERANCE)
             /\ StrictlyBetween(args.point.rows[i], args.base_point.rows[i]))
                => RowsClose(exp(result, args.base_point).rows[i], args.point.rows[i],
                             TOLERANCE)

(* C3: belongs(point, tol) is true for a row exactly when the point has     *)
(* n + 1 coordinates and |squared norm - 1| <= tol, the boundary included;  *)
(* for any other length it is the single value false.                       *)
C3_BelongsIffOnSphere ==
    Called("belongs") =>
        IF args.point.cols = dimension + 1
        THEN /\ result.kind = "boolarray"
             /\ Len(result.v) = NRows(args.point)
             /\ \A i \in 1..NRows(args.point) :
                   result.v[i] <=> OnSphere(args.point.rows[i], args.tolerance)
        ELSE result = PyFalse

(* A point at exactly tol from the sphere is accepted. *)
C3_BoundaryAccepted ==
    /\ Called("belongs")
    /\ args.point.cols = dimension + 1
    /\ FEq(FAbs(FSub(Dot(args.point.rows[1], args.point.rows[1]), One)), args.tolerance)
    /\ ~IsZero(args.tolerance)
    /\ result.v[1]

C5_VonMisesFisherOnlyInDimension2 ==
    Invoked("random_von_mises_fisher") =>
        IF dimension # 2
        THEN pc = "raised" /\ exc = "NotImplementedError" /\ rng = 0
        ELSE /\ exc # "NotImplementedError"
             /\ ~IsZero(args.kappa) =>
                   /\ pc = "returned"
                   /\ NRows(result) = args.n_samples
                   /\ result.cols = 3
                   /\ \A i \in 1..NRows(result) : Len(result.rows[i]) = 3

(* The scenario of the specification, within the bounds: kappa = 10 and two *)
(* samples on the 3-sphere.                                                 *)
C5_RefusedOnThreeSphere ==
    /\ dimension = 3
    /\ pc = "raised"
    /\ op = "random_von_mises_fisher"
    /\ args.kappa = Dec(10, 0)
    /\ args.n_samples = 2
    /\ exc = "NotImplementedError"
    /\ rng = 0

(* C6: regularize fails with an AssertionError, returning nothing, when the *)
(* point has the wrong length or any row of it is off the sphere; otherwise *)
(* it returns exactly projection(point).                                    *)
C6_RegularizeChecksThenProjects ==
    Invoked("regularize") =>
        IF AllOnSphere(dimension, args.point)
        THEN pc = "returned" /\ result = projection(args.point)
        ELSE pc = "raised" /\ exc = "AssertionError" /\ result = None

(* A batch with one row on the sphere and one off it is refused. *)
C6_MixedBatchRefused ==
    /\ Invoked("regularize")
    /\ args.point.cols = dimension + 1
    /\ NRows(args.point) = 2
    /\ OnSphere(args.point.rows[1], TOLERANCE)
    /\ ~OnSphere(args.point.rows[2], TOLERANCE)
    /\ pc = "raised"
    /\ exc = "AssertionError"

(* C7: no operation prints, and none draws from the global random stream:   *)
(* what a call does is in its return value alone.                           *)
C7_CallsHaveNoEffects ==
    Invoked(op) => stdout = 0 /\ rng = 0

(* C8: dist(p, q) == dist(q, p) exactly, for points on the sphere. *)
C8_DistSymmetric ==
    Called("dist") => result = dist(args.point_b, args.point_a)

(* A distance between two different points, one of norm other than 1. *)
C8_DistOfDistinctPoints ==
    /\ Called("dist")
    /\ args.point_a.rows[1] # args.point_b.rows[1]
    /\ norm(args.point_a)[1] # norm(args.point_b)[1]
    /\ FLt(Zero, result.rows[1][1])

(* v - (<b, v> / <b, b>) * b on one row, from the coordinates. *)
TangentPart(v, b) ==
    Map2(LAMBDA x, y : FSub(x, FMul(FDiv(Dot(b, v), Dot(b, b)), y)), v, b)

(* C9: for a base point b of nonzero squared norm,                          *)
(* t = projection_to_tangent_space(v, b) is v - (<b, v> / <b, b>) * b row   *)
(* by row, <b, t> is zero (up to rounding: within TOLERANCE), and           *)
(* projecting t again at b gives t (within TOLERANCE).                      *)
C9_TangentProjection ==
    Called("projection_to_tangent_space") =>
        \A i \in 1..NRows(args.vector) :
            (/\ IsFinite(Dot(args.base_point.rows[i], args.base_point.rows[i]))
             /\ ~IsZero(Dot(args.base_point.rows[i], args.base_point.rows[i])))
                => /\ result.rows[i] = TangentPart(args.vector.rows[i], args.base_point.rows[i])
                   /\ FLe(FAbs(Dot(args.base_point.rows[i], result.rows[i])), TOLERANCE)
                   /\ RowsClose(projection_to_tangent_space(result, args.base_point).rows[i],
                                result.rows[i], TOLERANCE)

(* A vector with a component along a base point that is not of unit norm:   *)
(* the projection removes it.                                               *)
C9_ComponentRemoved ==
    /\ Called("projection_to_tangent_space")
    /\ ~IsZero(Dot(args.base_point.rows[1], args.vector.rows[1]))
    /\ FLt(One, Dot(args.base_point.rows[1], args.base_point.rows[1]))
    /\ result.rows[1] # args.vector.rows[1]

(* The value of one branch of log alone. *)
OwnBranch1(angle) == IF mask_0(angle) THEN inv_sin_taylor(angle) ELSE FDiv(angle, Sin(angle))
OwnBranch2(angle) == IF mask_0(angle) THEN inv_tan_taylor(angle) ELSE FDiv(angle, Tan(angle))

CoefficientsAreOwnBranch(angle) ==
    /\ mask_0(angle) # mask_else(angle)
    /\ coef_1(angle) = OwnBranch1(angle)
    /\ coef_2(angle) = OwnBranch2(angle)
    /\ FLt(angle, PI) => IsFinite(coef_1(angle)) /\ IsFinite(coef_2(angle))

(* C10: in log, every element is in exactly one of the two masks, each      *)
(* coefficient is the value of the element's own branch (the polynomial in  *)
(* the near-zero mask, angle 0 included; the closed form otherwise), and so *)
(* it is finite for every angle in [0, pi).                                 *)
C10_LogCoefficientsAreOwnBranch ==
    Called("log") =>
        \A i \in 1..NRows(args.point) :
            CoefficientsAreOwnBranch(
                angle_of(to_ndarray(args.base_point), to_ndarray(args.point))[i])

=============================================================================
